---- MODULE Spec2Model ----
(***************************************************************************)
(* The intersection state machine of backend/server.py.                    *)
(*                                                                         *)
(* The handlers are asyncio coroutines served by one event loop: a handler *)
(* runs without interruption until it awaits.  The only await that         *)
(* suspends is the explanation call inside update_traffic (line 143), so   *)
(* update_traffic is two atomic steps (lines 116-140, then lines 146-161)  *)
(* with any number of other handlers in between, and every other handler   *)
(* is one atomic step.  The module holds no lock.                          *)
(***************************************************************************)
EXTENDS Integers, Sequences, FiniteSets, TLC

\* ------------------------------------------------------------------ bounds
\* concurrent update_traffic requests the event loop may hold
MaxTasks == 2
\* insights constructed in one run of Spec (readings of the clock)
MaxClock == 2
\* vehicle counts are drawn from 0..MaxCount (random.randint(0, 50) in the code)
MaxCount == 3
\* insights constructed in one run of SpecHistory
MaxHistory == 11
\* clock readings of a SpecHistory run within which the provider may fail
FailWindow == 1

\* ------------------------------------------------------- program constants
\* the number of insights kept (lines 154-155)
KeepLast == 10

\* the order of the list literal ["north", "south", "east", "west"]
directions == <<"north", "south", "east", "west">>

Direction == {directions[i] : i \in 1..Len(directions)}

\* what a client may send as ManualControl.direction (any string)
DirectionInputs == Direction \cup {"northeast", "invalid"}

Tasks == 1..MaxTasks

\* what the explanation provider answers when it does not fail (a text, held
\* as a sequence of pieces like the formatted strings below)
ProviderReplies == {<<"ai text">>}

VARIABLES
    is_paused,      \* simulation_state["is_paused"]
    is_manual,      \* simulation_state["is_manual"]
    current_green,  \* simulation_state["current_green"]
    traffic_data,   \* simulation_state["traffic_data"]: direction -> [vehicles, signal]
    insights,       \* simulation_state["insights"], newest first
    cycle_count,    \* simulation_state["cycle_count"]
    pc,             \* per request of update_traffic: "idle" or "awaiting" (at line 143)
    locals,         \* per request: max_direction, max_count, vehicle_counts
    now,            \* the clock read by datetime.now at line 147
    response,       \* what the handler that returned last sent back
    recorded        \* history: every insight constructed since the last reset, newest first

vars == <<is_paused, is_manual, current_green, traffic_data, insights, cycle_count,
          pc, locals, now, response, recorded>>

state == <<is_paused, is_manual, current_green, traffic_data, insights, cycle_count>>

\* --------------------------------------------------------------- helpers
NoLocals == [max_direction |-> "none", max_count |-> 0,
             vehicle_counts |-> [d \in Direction |-> 0]]

\* {"vehicles": 0, "signal": "red"} for every direction (lines 37-42, 217-218)
ClearedTraffic == [d \in Direction |-> [vehicles |-> 0, signal |-> "red"]]

\* a max() that lets a later equal value replace its candidate
ExceedsOrEquals(a, b) == a >= b

\* the comparison max() replaces its candidate on
Exceeds(a, b) == a > b

\* max(vehicle_counts, key=vehicle_counts.get): one pass over the keys in
\* insertion order, keeping the first key whose value nothing later exceeds
RECURSIVE MaxScan(_, _, _)
MaxScan(vc, i, best) ==
    IF i > Len(directions) THEN best
    ELSE MaxScan(vc, i + 1,
                 IF Exceeds(vc[directions[i]], vc[best]) THEN directions[i] ELSE best)

MaxDirection(vc) == MaxScan(vc, 2, directions[1])

\* str.upper on the direction names
Upper(d) ==
    CASE d = "north" -> "NORTH"
      [] d = "south" -> "SOUTH"
      [] d = "east"  -> "EAST"
      [] d = "west"  -> "WEST"
      [] OTHER       -> d

\* a label that keeps the direction in lower case
DecisionAsIs(d) == <<"Green light: ", d>>

\* f"Green light: {max_direction.upper()}"
Decision(d) == <<"Green light: ", Upper(d)>>

\* a fallback text filled from the shared state instead of the arguments
FallbackOfCurrentGreen(d, n) ==
    <<"Prioritizing ", current_green, " road with ", traffic_data[current_green].vehicles,
      " vehicles due to highest congestion.">>

\* f"Prioritizing {direction} road with {vehicle_count} vehicles due to highest congestion."
Fallback(d, n) == <<"Prioritizing ", d, " road with ", n, " vehicles due to highest congestion.">>

\* a signal loop that turns the chosen direction green and leaves the others alone
SignalForKeepsOthers(d, chosen) == IF d = chosen THEN "green" ELSE traffic_data[d].signal

\* the signal loop of update_traffic and set_manual_control
SignalFor(d, chosen) == IF d = chosen THEN "green" ELSE "red"

\* a guard that forgets manual mode
SuppressedPausedOnly == is_paused

\* the guard of update_traffic
Suppressed == is_paused \/ is_manual

\* a cycle counted twice
NextCycleCountTwice == cycle_count + 2

\* simulation_state["cycle_count"] += 1
NextCycleCount == cycle_count + 1

\* a slice one entry too long
TrimmedOffByOne(s) == IF Len(s) > KeepLast THEN SubSeq(s, 1, KeepLast + 1) ELSE s

\* insert(0, insight), then the slice [:10] when the list is longer than 10
Trimmed(s) == IF Len(s) > KeepLast THEN SubSeq(s, 1, KeepLast) ELSE s

\* an insight appended instead of inserted at the front
InsertedAtEnd(insight) == Trimmed(insights \o <<insight>>)

Inserted(insight) == Trimmed(<<insight>> \o insights)

\* a membership test that matches on a prefix
ValidDirectionLoose(d) == d \in Direction \cup {"northeast"}

\* control.direction not in ["north", "south", "east", "west"]
ValidDirection(d) == \E i \in 1..Len(directions) : directions[i] = d

InFlight == {t \in Tasks : pc[t] = "awaiting"}

\* ------------------------------------------------------------------ Init
Init ==
    /\ is_paused = FALSE
    /\ is_manual = FALSE
    /\ current_green = "north"
    /\ traffic_data = ClearedTraffic
    /\ insights = <<>>
    /\ cycle_count = 0
    /\ pc = [t \in Tasks |-> "idle"]
    /\ locals = [t \in Tasks |-> NoLocals]
    /\ now = 0
    /\ response = [status |-> 0, message |-> "none"]
    /\ recorded = <<>>

\* --------------------------------------------------------------- actions
\* GET /traffic/current
GetCurrentTraffic ==
    /\ response' = [status |-> 200, message |-> "state",
                    traffic_data |-> traffic_data, current_green |-> current_green,
                    is_paused |-> is_paused, is_manual |-> is_manual,
                    cycle_count |-> cycle_count]
    /\ UNCHANGED <<state, pc, locals, now, recorded>>

\* GET /traffic/insights
GetInsights ==
    /\ response' = [status |-> 200, message |-> "insights", insights |-> insights]
    /\ UNCHANGED <<state, pc, locals, now, recorded>>

\* POST /traffic/update while paused or manual (lines 116-117)
UpdateTrafficSkip(t) ==
    /\ pc[t] = "idle"
    /\ Suppressed
    /\ response' = [status |-> 200, message |-> "Simulation paused or in manual mode"]
    /\ UNCHANGED <<state, pc, locals, now, recorded>>

\* POST /traffic/update, lines 116-143: up to the await of the explanation
UpdateTrafficBegin(t, vc) ==
    /\ pc[t] = "idle"
    /\ ~Suppressed
    /\ LET max_direction == MaxDirection(vc)
       IN /\ traffic_data' = [d \in Direction |->
                                 [vehicles |-> vc[d], signal |-> SignalFor(d, max_direction)]]
          /\ current_green' = max_direction
          /\ locals' = [locals EXCEPT ![t] = [max_direction |-> max_direction,
                                              max_count |-> vc[max_direction],
                                              vehicle_counts |-> vc]]
    /\ cycle_count' = NextCycleCount
    /\ pc' = [pc EXCEPT ![t] = "awaiting"]
    /\ UNCHANGED <<is_paused, is_manual, insights, now, response, recorded>>

\* POST /traffic/update, lines 146-161: the explanation is in, the insight is stored
UpdateTrafficEnd(t, explanation) ==
    /\ pc[t] = "awaiting"
    /\ LET insight == [timestamp |-> now,
                       decision |-> Decision(locals[t].max_direction),
                       explanation |-> explanation,
                       vehicle_counts |-> locals[t].vehicle_counts]
       IN /\ insights' = Inserted(insight)
          /\ recorded' = <<insight>> \o recorded
          /\ response' = [status |-> 200, message |-> "updated",
                          traffic_data |-> traffic_data,
                          current_green |-> locals[t].max_direction,
                          insight |-> insight]
    /\ now' = now + 1
    /\ pc' = [pc EXCEPT ![t] = "idle"]
    /\ locals' = [locals EXCEPT ![t] = NoLocals]
    /\ UNCHANGED <<is_paused, is_manual, current_green, traffic_data, cycle_count>>

\* generate_ai_explanation returns the provider's text (line 90)
ProviderReturns(t) == \E r \in ProviderReplies : UpdateTrafficEnd(t, r)

\* generate_ai_explanation catches the provider's exception (lines 91-93)
ProviderFails(t) ==
    UpdateTrafficEnd(t, Fallback(locals[t].max_direction, locals[t].max_count))

\* a pause that toggles the flag
PauseSimulationToggles ==
    /\ is_paused' = ~is_paused
    /\ response' = [status |-> 200, message |-> "Simulation paused", is_paused |-> TRUE]
    /\ UNCHANGED <<is_manual, current_green, traffic_data, insights, cycle_count,
                   pc, locals, now, recorded>>

\* POST /traffic/pause
PauseSimulation ==
    /\ is_paused' = TRUE
    /\ response' = [status |-> 200, message |-> "Simulation paused", is_paused |-> TRUE]
    /\ UNCHANGED <<is_manual, current_green, traffic_data, insights, cycle_count,
                   pc, locals, now, recorded>>

\* POST /traffic/resume
ResumeSimulation ==
    /\ is_paused' = FALSE
    /\ response' = [status |-> 200, message |-> "Simulation resumed", is_paused |-> FALSE]
    /\ UNCHANGED <<is_manual, current_green, traffic_data, insights, cycle_count,
                   pc, locals, now, recorded>>

\* POST /traffic/manual with a direction the handler rejects (lines 183-184)
SetManualControlInvalid(direction) ==
    /\ ~ValidDirection(direction)
    /\ response' = [status |-> 400, message |-> "Invalid direction"]
    /\ UNCHANGED <<state, pc, locals, now, recorded>>

\* POST /traffic/manual with a direction it accepts (lines 186-200)
SetManualControl(direction) ==
    /\ ValidDirection(direction)
    /\ is_manual' = TRUE
    /\ traffic_data' = [d \in Direction |->
                           [vehicles |-> traffic_data[d].vehicles,
                            signal |-> SignalFor(d, direction)]]
    /\ current_green' = direction
    /\ response' = [status |-> 200, message |-> "Manual control", direction |-> direction,
                    traffic_data |-> traffic_data']
    /\ UNCHANGED <<is_paused, insights, cycle_count, pc, locals, now, recorded>>

\* a return to automatic mode that also resumes
SetAutoModeResumes ==
    /\ is_manual' = FALSE
    /\ is_paused' = FALSE
    /\ response' = [status |-> 200, message |-> "Switched to automatic mode",
                    is_manual |-> FALSE]
    /\ UNCHANGED <<current_green, traffic_data, insights, cycle_count,
                   pc, locals, now, recorded>>

\* POST /traffic/auto
SetAutoMode ==
    /\ is_manual' = FALSE
    /\ response' = [status |-> 200, message |-> "Switched to automatic mode",
                    is_manual |-> FALSE]
    /\ UNCHANGED <<is_paused, current_green, traffic_data, insights, cycle_count,
                   pc, locals, now, recorded>>

\* a reset that forgets the insight history
ResetKeepsInsights ==
    /\ is_paused' = FALSE
    /\ is_manual' = FALSE
    /\ current_green' = "north"
    /\ cycle_count' = 0
    /\ traffic_data' = ClearedTraffic
    /\ response' = [status |-> 200, message |-> "Simulation reset",
                    traffic_data |-> traffic_data']
    /\ UNCHANGED <<insights, recorded, pc, locals, now>>

\* POST /traffic/reset
ResetSimulation ==
    /\ is_paused' = FALSE
    /\ is_manual' = FALSE
    /\ current_green' = "north"
    /\ cycle_count' = 0
    /\ insights' = <<>>
    /\ traffic_data' = ClearedTraffic
    /\ recorded' = <<>>
    /\ response' = [status |-> 200, message |-> "Simulation reset",
                    traffic_data |-> traffic_data']
    /\ UNCHANGED <<pc, locals, now>>

\* ------------------------------------------------------- specifications
\* every count vector over 0..MaxCount
AllDraws == [Direction -> 0..MaxCount]

\* two count vectors: a tie at the top, and a tied maximum that comes late
SampleDraws ==
    { [north |-> MaxCount, south |-> MaxCount, east |-> 1, west |-> 0],
      [north |-> 0, south |-> 1, east |-> MaxCount, west |-> MaxCount] }

\* one step of the server: the counts come from draws, a new cycle starts only
\* while the run has clock readings left for it (cap), and the provider fails
\* only within the first failcap readings
Step(draws, cap, failcap) ==
    \/ GetCurrentTraffic
    \/ GetInsights
    \/ \E t \in Tasks : UpdateTrafficSkip(t)
    \/ /\ now + Cardinality(InFlight) < cap
       /\ \E t \in Tasks, vc \in draws : UpdateTrafficBegin(t, vc)
    \/ \E t \in Tasks : ProviderReturns(t)
    \/ /\ now < failcap
       /\ \E t \in Tasks : ProviderFails(t)
    \/ PauseSimulation
    \/ ResumeSimulation
    \/ \E direction \in DirectionInputs : SetManualControlInvalid(direction)
    \/ \E direction \in DirectionInputs : SetManualControl(direction)
    \/ SetAutoMode
    \/ ResetSimulation

Next == Step(SampleDraws, MaxClock, MaxClock)

Spec == Init /\ [][Next]_vars

\* one cycle at a time, over every count vector
NextTie == Step(AllDraws, 1, 1)

SpecTie == Init /\ [][NextTie]_vars

\* long runs over one count vector
HistoryDraws == { [north |-> 0, south |-> MaxCount, east |-> 1, west |-> MaxCount] }

NextHistory == Step(HistoryDraws, MaxHistory, FailWindow)

SpecHistory == Init /\ [][NextHistory]_vars

\* overlapping requests over one count vector
NextFair == Step(HistoryDraws, MaxClock, MaxClock)

\* the event loop resumes a suspended update_traffic once the provider has
\* returned or failed, and the provider always does one of the two
SpecFair ==
    /\ Init
    /\ [][NextFair]_vars
    /\ \A t \in Tasks : WF_vars(ProviderReturns(t) \/ ProviderFails(t))

\* ---------------------------------------------------------------- claims
GreenSet == {d \in Direction : traffic_data[d].signal = "green"}

RedSet == {d \in Direction : traffic_data[d].signal = "red"}

Vehicles == [d \in Direction |-> traffic_data[d].vehicles]

\* a request of update_traffic enters the handler in this step
UpdateTrafficCalled(t) ==
    /\ pc[t] = "idle"
    /\ \/ UpdateTrafficSkip(t)
       \/ pc'[t] = "awaiting"

\* a request of set_manual_control(direction) is served in this step
SetManualCalled(direction) ==
    \/ SetManualControlInvalid(direction)
    \/ SetManualControl(direction)

\* C1: in every reachable state exactly one direction is green and the other
\* three are red.
ExactlyOneGreen ==
    /\ Cardinality(GreenSet) = 1
    /\ Cardinality(RedSet) = 3

\* C2: while an update_traffic request is between its start and its end (it
\* waits on the explanation provider), no other mutating operation is applied:
\* no pause, resume, manual, auto, reset, and no second update starts.
MutualExclusion ==
    [][InFlight # {} =>
          ~ \/ PauseSimulation
            \/ ResumeSimulation
            \/ \E direction \in Direction : SetManualControl(direction)
            \/ SetAutoMode
            \/ ResetSimulation
            \/ \E t \in Tasks : UpdateTrafficCalled(t)]_vars

\* C3: a read (get_current_traffic, get_insights) never observes a state in
\* the middle of a mutation: never two greens, never counts refreshed without
\* current_green, and never while an update has changed counts, signals,
\* current_green and cycle_count but has not yet stored its insight.
ReadersSeeNoMutationInProgress ==
    [][(GetCurrentTraffic \/ GetInsights) =>
          /\ Cardinality(GreenSet) <= 1
          /\ InFlight = {}]_vars

\* C4: update_traffic called while is_paused or is_manual answers "skipped"
\* and leaves counts, signals, current_green, cycle_count, insights, is_paused
\* and is_manual as they were.
SkipLaw ==
    [][\A t \in Tasks :
          ((is_paused \/ is_manual) /\ UpdateTrafficCalled(t)) =>
              /\ response'.message = "Simulation paused or in manual mode"
              /\ state' = state]_vars

SkipLawWitness ==
    /\ response.message = "Simulation paused or in manual mode"
    /\ is_manual
    /\ ~is_paused
    /\ cycle_count > 0

\* C5: cycle_count changes only by +1 in an update_traffic call that is not
\* skipped, and by reset, which sets it to 0; every such call adds exactly 1,
\* and pause, resume, manual, auto and a skipped update leave it alone.
CycleCountLaw ==
    [][/\ \/ cycle_count' = cycle_count
          \/ /\ cycle_count' = cycle_count + 1
             /\ \E t \in Tasks : pc[t] = "idle" /\ pc'[t] = "awaiting"
          \/ /\ cycle_count' = 0
             /\ ResetSimulation
       /\ \A t \in Tasks :
             (pc[t] = "idle" /\ pc'[t] = "awaiting") => cycle_count' = cycle_count + 1
       /\ \/ PauseSimulation
          \/ ResumeSimulation
          \/ SetAutoMode
          \/ \E direction \in DirectionInputs : SetManualCalled(direction)
          \/ \E t \in Tasks : UpdateTrafficSkip(t)
          => cycle_count' = cycle_count]_vars

CycleCountLawWitness ==
    /\ cycle_count = 2
    /\ InFlight = {}
    /\ is_manual

\* C6: insights never holds more than 10 entries; once 10 or more insights
\* were constructed since the last reset it holds exactly 10, which are the 10
\* constructed last, newest first (timestamps strictly decreasing), and no
\* older one is among them.
BoundedHistory ==
    /\ Len(insights) <= 10
    /\ \A i \in 1..Len(insights) : insights[i] = recorded[i]
    /\ \A i \in 1..(Len(insights) - 1) : insights[i].timestamp > insights[i + 1].timestamp
    /\ Len(recorded) < 10 => Len(insights) = Len(recorded)
    /\ Len(recorded) >= 10 =>
          /\ Len(insights) = 10
          /\ \A j \in 11..Len(recorded) :
                \A i \in 1..Len(insights) : insights[i] # recorded[j]
    /\ response.message = "insights" => Len(response.insights) <= 10

BoundedHistoryWitness ==
    /\ Len(recorded) = 11
    /\ Len(insights) = 10
    /\ insights[10] = recorded[10]
    /\ InFlight = {}

\* C7: reset leaves all four counts 0, north green and the other three red,
\* current_green north, is_paused and is_manual false, cycle_count 0 and
\* insights empty.
ResetLaw ==
    [][ResetSimulation =>
          /\ \A d \in Direction : traffic_data'[d].vehicles = 0
          /\ traffic_data'["north"].signal = "green"
          /\ \A d \in Direction \ {"north"} : traffic_data'[d].signal = "red"
          /\ current_green' = "north"
          /\ is_paused' = FALSE
          /\ is_manual' = FALSE
          /\ cycle_count' = 0
          /\ insights' = <<>>]_vars

\* the largest of the four counts
Maximum(vc) == CHOOSE m \in {vc[d] : d \in Direction} : \A d \in Direction : vc[d] <= m

\* the first direction, in the order north, south, east, west, at the maximum
FirstAtMaximum(vc) ==
    directions[CHOOSE i \in 1..Len(directions) :
                  /\ vc[directions[i]] = Maximum(vc)
                  /\ \A j \in 1..(i - 1) : vc[directions[j]] # Maximum(vc)]

\* C8: an update_traffic call that is not skipped sets current_green to the
\* first direction in the order north, south, east, west whose count is the
\* maximum of the four counts it drew, and makes that direction green.
TieBreak ==
    [][\A t \in Tasks :
          (pc[t] = "idle" /\ pc'[t] = "awaiting") =>
              /\ current_green' = FirstAtMaximum(Vehicles')
              /\ locals'[t].max_direction = current_green'
              /\ traffic_data'[current_green'].signal = "green"
              /\ \A d \in Direction \ {current_green'} : traffic_data'[d].signal = "red"]_vars

\* counts ordered like north=30, south=30, east=10, west=5
TieBreakWitness ==
    /\ InFlight # {}
    /\ Vehicles = [north |-> 3, south |-> 3, east |-> 2, west |-> 1]
    /\ current_green = "north"
    /\ traffic_data["north"].signal = "green"

\* C9: set_manual_control with a direction outside north, south, east, west
\* answers 400 and leaves every component of the state as it was.
ManualRejection ==
    [][\A direction \in DirectionInputs \ {"north", "south", "east", "west"} :
          SetManualCalled(direction) =>
              /\ response'.status = 400
              /\ state' = state]_vars

ManualRejectionWitness ==
    /\ response.status = 400
    /\ cycle_count > 0
    /\ ~is_manual

\* C10: set_manual_control(d) for a valid d sets is_manual, makes d green and
\* the other three red, sets current_green to d, and leaves the counts,
\* cycle_count, insights and is_paused alone; from the initial state,
\* set_manual_control(east) gives current_green east, east green, the others
\* red, is_manual true and cycle_count 0.
ManualLaw ==
    [][\A direction \in {"north", "south", "east", "west"} :
          SetManualCalled(direction) =>
              /\ response'.status = 200
              /\ is_manual' = TRUE
              /\ traffic_data'[direction].signal = "green"
              /\ \A d \in Direction \ {direction} : traffic_data'[d].signal = "red"
              /\ current_green' = direction
              /\ Vehicles' = Vehicles
              /\ cycle_count' = cycle_count
              /\ insights' = insights
              /\ is_paused' = is_paused
              /\ (Init /\ direction = "east") =>
                    /\ current_green' = "east"
                    /\ GreenSet' = {"east"}
                    /\ RedSet' = {"north", "south", "west"}
                    /\ is_manual'
                    /\ cycle_count' = 0]_vars

ManualLawWitness ==
    /\ response.message = "Manual control"
    /\ response.direction = "east"
    /\ GreenSet = {"east"}
    /\ RedSet = {"north", "south", "west"}
    /\ is_paused
    /\ cycle_count > 0
    /\ Vehicles["north"] > 0

\* C11: pause applied twice in a row leaves the state that one pause leaves,
\* and so do resume and set_auto_mode: served right after itself, each of
\* the three changes nothing.
Idempotence ==
    [][\/ PauseSimulation /\ response.message = "Simulation paused"
       \/ ResumeSimulation /\ response.message = "Simulation resumed"
       \/ SetAutoMode /\ response.message = "Switched to automatic mode"
       => UNCHANGED vars]_vars

IdempotenceWitness ==
    /\ response.message = "Simulation paused"
    /\ is_paused
    /\ is_manual
    /\ cycle_count > 0

\* C12: when the provider fails in an update_traffic call that was not
\* skipped, the call still answers 200 and the insight it stores carries the
\* fallback text filled with the direction chosen in that cycle and that
\* direction's count in that cycle.
ProviderFallback ==
    [][\A t \in Tasks :
          (/\ pc[t] = "awaiting"
           /\ pc'[t] = "idle"
           /\ insights'[1].explanation \notin ProviderReplies) =>
              LET chosen == FirstAtMaximum(insights'[1].vehicle_counts)
              IN /\ response'.status = 200
                 /\ response'.message = "updated"
                 /\ response'.insight = insights'[1]
                 /\ insights'[1].explanation =
                       <<"Prioritizing ", chosen, " road with ",
                         insights'[1].vehicle_counts[chosen],
                         " vehicles due to highest congestion.">>]_vars

\* the provider failed after a manual override moved the green elsewhere
ProviderFallbackWitness ==
    /\ response.message = "updated"
    /\ response.insight.explanation[1] = "Prioritizing "
    /\ response.insight.explanation[2] = "north"
    /\ current_green = "west"
    /\ insights # <<>>

\* C13: in every reachable state the signal of current_green is green.
CurrentGreenIsGreen == traffic_data[current_green].signal = "green"

\* the state simulation_state is created with, component by component
CreatedState ==
    <<FALSE, FALSE, "north",
      [north |-> [vehicles |-> 0, signal |-> "red"],
       south |-> [vehicles |-> 0, signal |-> "red"],
       east  |-> [vehicles |-> 0, signal |-> "red"],
       west  |-> [vehicles |-> 0, signal |-> "red"]],
      <<>>, 0>>

\* C14: the state right after reset equals, in every component, the state the
\* program is created with, whatever the state before.
ResetRestoresCreatedState ==
    [][/\ Init => state = CreatedState
       /\ ResetSimulation => state' = CreatedState]_vars

ResetRestoresCreatedStateWitness ==
    /\ response.message = "Simulation reset"
    /\ state = CreatedState
    /\ now > 0
    /\ InFlight # {}

\* C15: pause and resume change only is_paused, set_auto_mode changes only
\* is_manual; none of the three changes signals, current_green, counts,
\* cycle_count or insights, and set_manual_control and set_auto_mode never
\* change is_paused.
ModeFrame ==
    [][/\ (PauseSimulation \/ ResumeSimulation) =>
             UNCHANGED <<is_manual, current_green, traffic_data, cycle_count, insights>>
       /\ PauseSimulation => is_paused'
       /\ ResumeSimulation => ~is_paused'
       /\ SetAutoMode =>
             /\ ~is_manual'
             /\ UNCHANGED <<is_paused, current_green, traffic_data, cycle_count, insights>>
       /\ (\E direction \in DirectionInputs : SetManualCalled(direction)) =>
             UNCHANGED is_paused]_vars

ModeFrameWitness ==
    /\ response.message = "Switched to automatic mode"
    /\ is_paused
    /\ ~is_manual
    /\ current_green = "west"
    /\ insights # <<>>

\* a suspended request of update_traffic resumes and returns in this step
UpdateTrafficCompleted(t) ==
    /\ pc[t] = "awaiting"
    /\ pc'[t] = "idle"

\* C16: while is_paused or is_manual, no step of any update_traffic request,
\* the completion of one that began earlier included, adds an insight or
\* changes counts, signals, current_green or cycle_count.
NoAdvanceWhileSuppressed ==
    [][(is_paused \/ is_manual) =>
          \A t \in Tasks :
             (UpdateTrafficCalled(t) \/ UpdateTrafficCompleted(t)) =>
                 UNCHANGED <<insights, traffic_data, current_green, cycle_count>>]_vars

\* C17: what an update_traffic call that was not skipped returns is consistent
\* in itself: in the returned traffic_data the returned current_green is green
\* and the other three are red, the returned counts are the returned
\* insight's vehicle_counts, and the insight's decision names the returned
\* current_green.
ReturnedResultConsistent ==
    response.message = "updated" =>
        /\ response.traffic_data[response.current_green].signal = "green"
        /\ \A d \in Direction \ {response.current_green} :
              response.traffic_data[d].signal = "red"
        /\ \A d \in Direction :
              response.traffic_data[d].vehicles = response.insight.vehicle_counts[d]
        /\ response.insight.decision[2] = Upper(response.current_green)

\* the upper-case names of the directions
Label == [north |-> "NORTH", south |-> "SOUTH", east |-> "EAST", west |-> "WEST"]

\* ins records one decision: its label names the first direction at the
\* maximum of its own snapshot
RecordsOneDecision(ins) ==
    \E d \in Direction :
        /\ ins.decision = <<"Green light: ", Label[d]>>
        /\ ins.vehicle_counts[d] = Maximum(ins.vehicle_counts)
        /\ d = FirstAtMaximum(ins.vehicle_counts)

\* C18: every insight in insights records one automatic decision: its
\* decision is "Green light: " and the upper-cased direction chosen in its
\* cycle, its vehicle_counts are the counts drawn in that cycle, the chosen
\* direction's count is the maximum of that snapshot, and no later operation
\* alters an insight once it is stored (it only moves back, or leaves with
\* the slice or a reset).
InsightsAreRecords ==
    [][/\ \A i \in 1..Len(insights') : RecordsOneDecision(insights'[i])
       /\ \A t \in Tasks :
             /\ (pc[t] = "idle" /\ pc'[t] = "awaiting") =>
                   /\ locals'[t].vehicle_counts = Vehicles'
                   /\ locals'[t].max_direction = current_green'
             /\ (pc[t] = "awaiting" /\ pc'[t] = "awaiting") => locals'[t] = locals[t]
             /\ UpdateTrafficCompleted(t) =>
                   /\ insights'[1].vehicle_counts = locals[t].vehicle_counts
                   /\ insights'[1].decision = <<"Green light: ", Label[locals[t].max_direction]>>
                   /\ \A i \in 2..Len(insights') : insights'[i] = insights[i - 1]
       /\ \/ insights' = insights
          \/ \E t \in Tasks : UpdateTrafficCompleted(t)
          \/ ResetSimulation /\ insights' = <<>>]_vars

\* two insights stored, then a manual override
InsightsAreRecordsWitness ==
    /\ Len(insights) = 2
    /\ response.message = "Manual control"
    /\ current_green = "west"
    /\ insights[1].decision = <<"Green light: ", "NORTH">>
    /\ insights[2].decision = <<"Green light: ", "EAST">>

\* C19: whenever no update_traffic request is in flight, insights holds
\* min(cycle_count, 10) entries.
InsightsMatchCycleCount ==
    InFlight = {} =>
        Len(insights) = (IF cycle_count < 10 THEN cycle_count ELSE 10)

\* C20: the provider always returning or failing in the end, every
\* update_traffic call that was not skipped completes, and its completion
\* puts exactly one new insight, that cycle's, at the front of insights,
\* whether the provider answered or failed and whatever ran meanwhile.
EveryCycleCompletes ==
    /\ \A t \in Tasks : (pc[t] = "awaiting") ~> (pc[t] = "idle")
    /\ [][\A t \in Tasks :
             UpdateTrafficCompleted(t) =>
                 /\ Len(insights') = (IF Len(insights) < 10 THEN Len(insights) + 1 ELSE 10)
                 /\ insights'[1].timestamp = now
                 /\ insights'[1].vehicle_counts = locals[t].vehicle_counts
                 /\ insights'[1].decision = <<"Green light: ", Label[locals[t].max_direction]>>
                 /\ \A i \in 1..Len(insights) : insights[i].timestamp < now
                 /\ \A i \in 2..Len(insights') : insights'[i] = insights[i - 1]
                 /\ response'.status = 200
                 /\ response'.insight = insights'[1]]_vars

\* a call completed, on the fallback, behind an insight stored while it waited
\* and after the simulation was paused
EveryCycleCompletesWitness ==
    /\ InFlight = {}
    /\ Len(insights) = 2
    /\ is_paused
    /\ response.message = "updated"
    /\ response.insight = insights[1]
    /\ insights[1].explanation[1] = "Prioritizing "
    /\ insights[2].explanation = <<"ai text">>

====
